---- MODULE Spec2Model ----
(***************************************************************************)
(* Reminder scheduling and delivery engine of the Fitness App:             *)
(*   src/email_scheduler.py   EmailScheduler (poll, dispatch, mark)        *)
(*   src/database_service.py  DatabaseService (schedule store, workouts)   *)
(*   src/migration.py         time format migration                        *)
(*                                                                         *)
(* Strings that the code parses or formats (times of day) are sequences of *)
(* one-character strings.  The wall clock is counted in seconds; the       *)
(* modelled day is cut to its first NumMinutes minutes, after which the    *)
(* next day starts (nothing is due in the part that is cut away).          *)
(***************************************************************************)
EXTENDS Integers, Sequences, FiniteSets, TLC

\* ------------------------------------------------------------------ bounds
\* minutes of the modelled day
NumMinutes == 2
\* days the clock runs through
MaxDays == 2
\* rows the schedule table may hold
MaxRows == 2
\* save_schedule calls that write, issued by the reminder form
MaxSaves == 1
\* rows the table holds when the scheduler starts
MaxInitRows == 1
\* runs of the migration utility
MaxMigrations == 2
\* save_schedule calls issued when calls may overlap
MaxCalls == 2

\* ------------------------------------------------------- program constants
max_retries == 3
retry_delay == 5
smtp_timeout == 30
\* time.sleep(60 - datetime.now().second); time.sleep(60)
SleepBase == 60
SleepOnError == 60

Emails == {"a@x.com", "b@x.com"}
Videos == {"w1", "w2"}

DayLen == NumMinutes * 60
Horizon == MaxDays * DayLen

\* ------------------------------------------------------------ time strings
DigitChars == <<"0", "1", "2", "3", "4", "5", "6", "7", "8", "9">>

Digit(n) == DigitChars[n + 1]

\* "%d": no padding
Pad2_Bare(n) == IF n < 10 THEN <<Digit(n)>> ELSE <<Digit((n \div 10) % 10), Digit(n % 10)>>

\* "%02d"
Pad2(n) == <<Digit((n \div 10) % 10), Digit(n % 10)>>

\* strftime("%H:%M") and f"{hour:02d}:{minute:02d}"
FormatHM(h, m) == Pad2(h) \o <<":">> \o Pad2(m)

\* minute of the day shown by a clock reading
MinuteOfDay(c) == (c \div 60) % NumMinutes

SecondOf(c) == c % 60

\* EmailScheduler.get_current_time: datetime.now().strftime("%H:%M")
get_current_time(c) == FormatHM(MinuteOfDay(c) \div 60, MinuteOfDay(c) % 60)

\* int(time.time() * 1000)
NowMs(c) == c * 1000

\* values of the form's number inputs: "Hour (0-23)", "Minute (0-59)"
FormHours == {0, 9, 10, 23}
FormMinutes == {0, 5, 59}

\* times the reminder form can submit (hour and minute number inputs)
FormTimes == {FormatHM(m \div 60, m % 60) : m \in 0 .. NumMinutes - 1}

\* ------------------------------------------------- migration.py: the times
IsDigit(c) == \E n \in 0 .. 9 : DigitChars[n + 1] = c

DigitVal(c) == CHOOSE n \in 0 .. 9 : DigitChars[n + 1] = c

\* "\s" of the strptime pattern, within the characters modelled
IsSpace(c) == c \in {" ", "\t"}

\* "%I": 1[0-2]|0[1-9]|[1-9]
IsHour12(h) ==
    \/ Len(h) = 2 /\ h[1] = "1" /\ h[2] \in {"0", "1", "2"}
    \/ Len(h) = 2 /\ h[1] = "0" /\ IsDigit(h[2]) /\ h[2] # "0"
    \/ Len(h) = 1 /\ IsDigit(h[1]) /\ h[1] # "0"

\* "%M": [0-5]\d|\d
IsMinute(m) ==
    \/ Len(m) = 2 /\ m[1] \in {"0", "1", "2", "3", "4", "5"} /\ IsDigit(m[2])
    \/ Len(m) = 1 /\ IsDigit(m[1])

\* "%p": am|pm, letter case ignored
IsMeridiem(p) ==
    /\ Len(p) = 2
    /\ p[1] \in {"A", "a", "P", "p"}
    /\ p[2] \in {"M", "m"}

NumberOf(ds) == IF Len(ds) = 1 THEN DigitVal(ds[1]) ELSE 10 * DigitVal(ds[1]) + DigitVal(ds[2])

\* the ways "%I:%M %p" matches the whole of s: <<hour digits, minute digits>>
Splits12(s) ==
    {km \in {1, 2} \X {1, 2} :
        LET k == km[1]
            j == km[2]
        IN /\ Len(s) >= k + 1 + j + 1 + 2
           /\ IsHour12(SubSeq(s, 1, k))
           /\ s[k + 1] = ":"
           /\ IsMinute(SubSeq(s, k + 2, k + 1 + j))
           /\ \A i \in k + j + 2 .. Len(s) - 2 : IsSpace(s[i])
           /\ IsMeridiem(SubSeq(s, Len(s) - 1, Len(s)))}

\* a strptime that adds 12 to every PM hour and leaves every AM hour
strptime_IMp_Naive(s) ==
    IF Splits12(s) = {} THEN [ok |-> FALSE, hour |-> 0, minute |-> 0]
    ELSE LET km == CHOOSE x \in Splits12(s) : TRUE
             h == NumberOf(SubSeq(s, 1, km[1]))
             m == NumberOf(SubSeq(s, km[1] + 2, km[1] + 1 + km[2]))
             pm == s[Len(s) - 1] \in {"P", "p"}
         IN [ok |-> TRUE, hour |-> IF pm THEN h + 12 ELSE h, minute |-> m]

\* datetime.strptime(s, "%I:%M %p"): the 24-hour hour and the minute, or
\* ok = FALSE for the ValueError
strptime_IMp(s) ==
    IF Splits12(s) = {} THEN [ok |-> FALSE, hour |-> 0, minute |-> 0]
    ELSE LET km == CHOOSE x \in Splits12(s) : TRUE
             h == NumberOf(SubSeq(s, 1, km[1]))
             m == NumberOf(SubSeq(s, km[1] + 2, km[1] + 1 + km[2]))
             pm == s[Len(s) - 1] \in {"P", "p"}
         IN [ok |-> TRUE,
             hour |-> IF pm THEN (IF h = 12 THEN 12 ELSE h + 12)
                      ELSE (IF h = 12 THEN 0 ELSE h),
             minute |-> m]

Contains(s, c) == \E i \in DOMAIN s : s[i] = c

\* "except ValueError" of convert_time_format catches the error of strptime
except_ValueError(exc) == exc = "ValueError"

\* whether a convert_time_format call ends in an exception instead of a value
convert_raises(time_str) ==
    /\ time_str # <<>>
    /\ Contains(time_str, ":")
    /\ Contains(time_str, " ")
    /\ ~strptime_IMp(time_str).ok
    /\ ~except_ValueError("ValueError")

\* decimal text of a number below 100, as the old form wrote hours
Dec(n) == IF n < 10 THEN <<Digit(n)>> ELSE Pad2(n)

\* hour and minute numbers the stored strings are written with
HourNums == {0, 1, 9, 11, 12, 13, 23, 24, 25}
MinuteNums == {0, 5, 59, 60}

HourTexts == {Dec(h) : h \in HourNums} \cup {Pad2(h) : h \in HourNums} \cup {<<>>}
MinuteTexts == {Dec(m) : m \in MinuteNums} \cup {Pad2(m) : m \in MinuteNums}
Separators == {<<":">>, <<>>}
Suffixes ==
    {<<>>, <<" ", "A", "M">>, <<" ", "P", "M">>, <<" ", "a", "m">>, <<" ", "p", "m">>,
     <<" ", " ", "P", "M">>, <<"A", "M">>, <<" ">>, <<" ", "X", "M">>}

\* the strings convert_time_format is called with
TimeStrings ==
    {h \o c \o m \o x : h \in HourTexts, c \in Separators, m \in MinuteTexts, x \in Suffixes}
        \cup {<<>>}

\* migration.convert_time_format
convert_time_format(time_str) ==
    IF time_str = <<>> \/ ~Contains(time_str, ":") THEN time_str
    ELSE IF Contains(time_str, " ")
         THEN LET dt == strptime_IMp(time_str)
              IN IF dt.ok THEN FormatHM(dt.hour, dt.minute)
                 ELSE time_str       \* except ValueError: return time_str
         ELSE time_str

\* ------------------------------------------- EmailScheduler: configuration
\* os.getenv returns None for a variable that is not set
None == "None"

\* values the four variables can have in the environment (or the .env file)
EnvServers == {None, "", "smtp.x.com"}
EnvPorts == {None, "", "0", "25"}
EnvUsers == {None, "", "u@x.com"}
EnvPasswords == {None, "", "secret"}

Envs == [server : EnvServers, port : EnvPorts, user : EnvUsers, password : EnvPasswords]

\* an environment with every setting present
FullEnv == [server |-> "smtp.x.com", port |-> "25", user |-> "u@x.com", password |-> "secret"]

\* os.getenv(name, default)
getenv(value, default) == IF value = None THEN default ELSE value

\* int(os.getenv("SMTP_PORT", 587)): -1 stands for the ValueError of int("")
port_int(value) ==
    CASE value = None -> 587
      [] value = "" -> -1
      [] value = "0" -> 0
      [] OTHER -> 25

\* self.smtp_config as __init__ builds it
smtp_config(e) ==
    [server |-> getenv(e.server, "smtp.gmail.com"),
     port |-> port_int(e.port),
     user |-> getenv(e.user, None),
     password |-> getenv(e.password, None)]

\* a validate_config that accepts every configuration
validate_config_Lax(cfg) == TRUE

\* validate_config: all(self.smtp_config.values()), else ValueError
validate_config(cfg) ==
    /\ cfg.server \notin {None, ""}
    /\ cfg.port # 0
    /\ cfg.user \notin {None, ""}
    /\ cfg.password \notin {None, ""}

\* EmailScheduler(): TRUE when __init__ returns, FALSE when it raises
construct(e) ==
    IF port_int(e.port) = -1 THEN FALSE
    ELSE validate_config(smtp_config(e))

\* ------------------------------------------------------------------- state
VARIABLES
    schedule,        \* the schedule table: a sequence of rows, in insertion order
    workouts,        \* video ids present in all_workouts
    clock,           \* wall clock, seconds
    slow,            \* whether the SMTP server may let an attempt time out
    saves,           \* save_schedule calls made so far
    stats,           \* what the migrate_schedules runs returned, in order
    pc,              \* where check_and_send_reminders stands
    current_time,    \* current_time of the running cycle
    polled,          \* how the poll of the running cycle ended: "ok", "fail"
    lastPoll,        \* the minute (clock \div 60) of the latest poll, -1 before the first
    reminders,       \* the rows fetched by the poll of the running cycle
    idx,             \* position in reminders of the entry being processed
    cur,             \* the process_reminder call in progress
    results,         \* the finished process_reminder calls of the running cycle
    deliveredEarlier, \* rows whose email was sent in an earlier cycle
    committedEarlier, \* rows whose is_sent was set by a mark of an earlier cycle
    env,             \* the SMTP settings of the process environment
    conversion,      \* a convert_time_format call: its argument and what it returned
    inflight,        \* save_schedule calls between their lookup and their write
    flaky,           \* whether the SMTP server may fail STARTTLS or the login
    peer             \* a second scheduler process working on the same store

vars == <<schedule, workouts, clock, slow, saves, stats, pc, current_time, reminders,
          idx, cur, results, deliveredEarlier, committedEarlier, polled, lastPoll,
          env, conversion, inflight, flaky, peer>>

schedVars == <<pc, current_time, polled, lastPoll, reminders, idx, cur, results,
               deliveredEarlier, committedEarlier>>

\* what the scheduler loop and the reminder form leave alone
sideVars == <<env, conversion, inflight, flaky, peer>>

\* -------------------------------------------------------- exception clauses
\* a handler that lets everything but the store's Error through
except_Exception_OnlyError(exc) == exc = "Error"

\* "except Exception": every exception class the code can meet is caught;
\* KeyboardInterrupt is no Exception and is the operator's stop (see Stop).
except_Exception(exc) == exc # "KeyboardInterrupt"

\* "except Error" of database_service.py: mysql.connector.Error only
except_Error(exc) == exc = "Error"

\* ---------------------------------------------------------- schedule store
Row(email, video_id, time, is_sent, updated_at) ==
    [email |-> email, video_id |-> video_id, time |-> time,
     is_sent |-> is_sent, updated_at |-> updated_at]

\* one row of a SELECT *, with the row's place in the table
Fetched(sched, i) ==
    [rid |-> i, email |-> sched[i].email, video_id |-> sched[i].video_id,
     time |-> sched[i].time, is_sent |-> sched[i].is_sent,
     updated_at |-> sched[i].updated_at]

RECURSIVE SelectDue(_, _, _)
\* SELECT * FROM schedule WHERE time = %s AND is_sent = FALSE, rows i..end
SelectDue(sched, t, i) ==
    IF i > Len(sched) THEN <<>>
    ELSE IF sched[i].time = t /\ sched[i].is_sent = FALSE
         THEN <<Fetched(sched, i)>> \o SelectDue(sched, t, i + 1)
         ELSE SelectDue(sched, t, i + 1)

\* EmailScheduler.get_due_reminders: the rows, or [] when the store fails
get_due_reminders(sched, t, db) ==
    IF db = "ok" THEN [raised |-> FALSE, rows |-> SelectDue(sched, t, 1)]
    ELSE IF except_Exception("Error") THEN [raised |-> FALSE, rows |-> <<>>]
    ELSE [raised |-> TRUE, rows |-> <<>>]

\* UPDATE schedule SET is_sent = TRUE WHERE email = %s AND video_id = %s
MarkUpdate(sched, email, video_id) ==
    [i \in DOMAIN sched |->
        IF sched[i].email = email /\ sched[i].video_id = video_id
        THEN [sched[i] EXCEPT !.is_sent = TRUE]
        ELSE sched[i]]

\* DatabaseService.get_workout_by_id: "found", "none" (no such row, or the
\* store's Error caught), or the class of the exception that escapes it
get_workout_by_id(ws, video_id, db) ==
    IF db = "error"
    THEN (IF except_Error("Error") THEN "none" ELSE "Error")
    ELSE IF video_id \notin ws THEN "none"
    ELSE IF db = "malformed"
         THEN (IF except_Error("TypeError") THEN "none" ELSE "TypeError")
         ELSE "found"

\* DatabaseService.get_schedule_by_email: index of the first row of the
\* email, 0 for None (no row, or the store's Error caught)
get_schedule_by_email(sched, email, db) ==
    IF db # "ok" THEN 0
    ELSE IF \E i \in DOMAIN sched : sched[i].email = email
         THEN CHOOSE i \in DOMAIN sched :
                  /\ sched[i].email = email
                  /\ \A j \in DOMAIN sched : sched[j].email = email => i <= j
         ELSE 0

\* a save that re-arms the reminder: the UPDATE also resets is_sent
save_schedule_write_Rearm(sched, email, data, now, existing) ==
    IF existing # 0
    THEN [i \in DOMAIN sched |->
             IF sched[i].email = email
             THEN Row(email, data.video_id, data.time, FALSE, now)
             ELSE sched[i]]
    ELSE Append(sched, Row(email, data.video_id, data.time, FALSE, now))

\* save_schedule from "if existing:" on, existing being what the lookup of
\* the call returned when it ran: UPDATE ... WHERE email, or INSERT
save_schedule_write(sched, email, data, now, existing) ==
    IF existing # 0
    THEN [i \in DOMAIN sched |->
             IF sched[i].email = email
             THEN [sched[i] EXCEPT !.video_id = data.video_id,
                                   !.time = data.time,
                                   !.updated_at = now]
             ELSE sched[i]]
    ELSE Append(sched, Row(email, data.video_id, data.time, FALSE, now))

\* DatabaseService.save_schedule: the table after the call
\*   db = "fail":        get_connection or execute raises Error: no change
\*   db = "lookup_fail": the inner get_schedule_by_email fails and returns None
save_schedule(sched, email, data, now, db) ==
    IF db = "fail" THEN sched
    ELSE save_schedule_write(sched, email, data, now,
             get_schedule_by_email(sched, email,
                 IF db = "lookup_fail" THEN "error" ELSE "ok"))

\* ------------------------------------------- migration.py: migrate_schedules
\* DatabaseService defines no get_all_schedules
dbs_has_get_all_schedules == FALSE

\* migration.get_all_schedules: "dbs.get_all_schedules() or []"; the
\* AttributeError of the missing method is caught and [] returned
get_all_schedules(sched) ==
    IF dbs_has_get_all_schedules
    THEN [i \in DOMAIN sched |-> Fetched(sched, i)]
    ELSE <<>>

ZeroStats == [total |-> 0, converted |-> 0, failed |-> 0, unchanged |-> 0, invalid |-> 0]

\* UPDATE schedule SET time = %s WHERE email = %s AND video_id = %s
TimeUpdate(sched, new_time, email, video_id) ==
    [i \in DOMAIN sched |->
        IF sched[i].email = email /\ sched[i].video_id = video_id
        THEN [sched[i] EXCEPT !.time = new_time]
        ELSE sched[i]]

RECURSIVE MigrateFrom(_, _, _, _, _)
\* the loop of migrate_schedules from entry i on; failing: the entries whose
\* UPDATE raises.  The pool's connections are autocommit, so every UPDATE
\* that ran stays and conn.rollback() undoes nothing.
MigrateFrom(rows, i, sched, st, failing) ==
    IF i > Len(rows) THEN [sched |-> sched, stats |-> st]
    ELSE LET original_time == rows[i].time
             new_time == convert_time_format(original_time)
         IN IF new_time = <<>> \/ new_time = original_time
            THEN MigrateFrom(rows, i + 1, sched,
                             [st EXCEPT !.unchanged = @ + 1], failing)
            ELSE IF i \in failing
                 THEN MigrateFrom(rows, i + 1, sched,
                                  [st EXCEPT !.failed = @ + 1], failing)
                 ELSE MigrateFrom(rows, i + 1,
                                  TimeUpdate(sched, new_time, rows[i].email,
                                             rows[i].video_id),
                                  [st EXCEPT !.converted = @ + 1], failing)

\* migration.migrate_schedules: the table and the stats it returns
\*   db = "conn_fail": dbs.get_connection() raises, "Migration aborted"
migrate_schedules(sched, db, failing) ==
    LET schedules == get_all_schedules(sched)
        st == [ZeroStats EXCEPT !.total = Len(schedules)]
    IN IF schedules = <<>> THEN [sched |-> sched, stats |-> st]
       ELSE IF db = "conn_fail" THEN [sched |-> sched, stats |-> st]
       ELSE MigrateFrom(schedules, 1, sched, st, failing)

\* --------------------------------------------------------- EmailScheduler
\* a process_reminder call: what it has done so far
NoCur ==
    [rid |-> 0, workout |-> "-", sendCalls |-> 0,
     attempts |-> 0,     \* connection attempts of the send_email call
     opened |-> 0,       \* those that succeeded
     afterOpen |-> 0,    \* those made after one had succeeded
     lastEnd |-> 0,      \* clock at the end of the latest attempt
     gaps |-> {},        \* the delays seen between consecutive attempts
     tail |-> 0,         \* the delay slept after the last failed attempt
     transmits |-> 0,    \* send_message calls of the send_email call
     sessions |-> 0,     \* sessions the send_email call has opened and not closed
     send |-> "-", markCalls |-> 0, mark |-> "-", hit |-> FALSE, ret |-> "-"]

\* a process_reminder that sends whatever the lookup returned
ProceedToSend_Always(w) == TRUE

\* process_reminder: "if not workout: return False", else render and send
ProceedToSend(w) == w = "found"

\* create_smtp_connection: "for attempt in range(1, self.max_retries + 1)"
MoreAttempts(attempt) == attempt < max_retries

\* a retry loop that sleeps after every failed attempt, the last included
RetrySleep_Always(attempt) == retry_delay

\* create_smtp_connection: "if attempt < self.max_retries: time.sleep(...)"
RetrySleep(attempt) == IF attempt < max_retries THEN retry_delay ELSE 0

\* a send_email that reconnects after a rejected send_message
RetryAfterRejected_Yes == TRUE

\* send_email: a rejected send_message ends the call ("except ...: return False")
RetryAfterRejected == FALSE

\* a process_reminder that marks whatever send_email returned
MarkAfterSend_Always(sent) == TRUE

\* process_reminder: "if self.send_email(...): return self.mark_reminder_sent(...)"
MarkAfterSend(sent) == sent

\* a loop that starts its next cycle without sleeping
SleepSeconds_None(c) == 0

\* time.sleep(60 - datetime.now().second)
SleepSeconds(c) == SleepBase - SecondOf(c)

\* seconds a connection attempt can take: at once, or the socket timeout
AttemptDurations(ok) == IF ok \/ ~slow THEN {0} ELSE {0, smtp_timeout}

\* how a connection attempt ends: "-" for success, else the call that raised.
\* After a failed starttls or login the session smtplib.SMTP(...) opened
\* exists, and create_smtp_connection does not close it.
AttemptEnds(ok) ==
    IF ok THEN {"-"}
    ELSE IF flaky THEN {"SMTP", "starttls", "login"}
    ELSE {"SMTP"}

\* sessions an attempt leaves open: the one handed to send_email, or the
\* one whose starttls or login failed
LeftOpen(end) == IF end \in {"-", "starttls", "login"} THEN 1 ELSE 0

\* sessions still open once send_email has returned.  The code closes none
\* of the sessions left by failed attempts; an unreferenced session is
\* closed if and when the interpreter finalizes the object, which the
\* language does not promise: either all are reclaimed by then, or none.
StillOpen(n) == IF n = 0 THEN {0} ELSE {0, n}

\* process_reminder returns ret; the generator of the cycle moves on
Return(c, ret, now) ==
    /\ results' = Append(results, [c EXCEPT !.ret = ret])
    /\ cur' = NoCur
    /\ idx' = idx + 1
    /\ pc' = IF idx + 1 <= Len(reminders) THEN "process" ELSE "sleep"
    /\ clock' = now

\* an exception raised inside the try block of process_reminder
Raise(c, exc, now) ==
    IF except_Exception(exc)
    THEN Return(c, "False", now)
    ELSE \* it escapes process_reminder and reaches the handler of the loop
         /\ results' = Append(results, [c EXCEPT !.ret = "raise"])
         /\ cur' = NoCur
         /\ idx' = idx
         /\ IF except_Exception(exc)
            THEN /\ now + SleepOnError <= Horizon
                 /\ clock' = now + SleepOnError
                 /\ pc' = "loop"
            ELSE /\ clock' = now
                 /\ pc' = "crashed"

\* send_email has returned sent to process_reminder
AfterSendEmail(c, sent, now) ==
    \E open \in StillOpen(c.sessions) :
        LET c1 == [c EXCEPT !.send = IF sent THEN "True" ELSE "False",
                            !.lastEnd = 0, !.sessions = open]
        IN IF MarkAfterSend(sent)
           THEN /\ pc' = "mark"
                /\ cur' = c1
                /\ clock' = now
                /\ UNCHANGED <<results, idx>>
           ELSE Return(c1, "False", now)

\* an exception raised inside the try block of send_email
SendFailed(c, exc, now) ==
    IF except_Exception(exc) THEN AfterSendEmail(c, FALSE, now) ELSE Raise(c, exc, now)

\* rows whose email a finished call of the cycle has sent
Delivered(res) == {res[i].rid : i \in {j \in DOMAIN res : res[j].send = "True"}}

\* rows whose is_sent a finished call of the cycle has set
Committed(res) == {res[i].rid : i \in {j \in DOMAIN res : res[j].hit}}

\* __main__: "scheduler = EmailScheduler()", then check_and_send_reminders;
\* the ValueError of __init__ is not caught and ends the process
Construct ==
    /\ pc = "start"
    /\ pc' = IF construct(env) THEN "loop" ELSE "failed"
    /\ UNCHANGED <<schedule, workouts, clock, slow, saves, stats, current_time, polled,
                   lastPoll, reminders, idx, cur, results, deliveredEarlier,
                   committedEarlier>>
    /\ UNCHANGED sideVars

\* check_and_send_reminders: top of the loop, get_current_time and the poll
Poll ==
    /\ pc = "loop"
    /\ clock < Horizon
    /\ \E db \in {"ok", "fail"} :
        LET t == get_current_time(clock)
            g == get_due_reminders(schedule, t, db)
        IN /\ current_time' = t
           /\ polled' = db
           /\ lastPoll' = clock \div 60
           /\ reminders' = g.rows
           /\ idx' = 1
           /\ cur' = NoCur
           /\ results' = <<>>
           /\ deliveredEarlier' = deliveredEarlier \cup Delivered(results)
           /\ committedEarlier' = committedEarlier \cup Committed(results)
           /\ IF g.raised
              THEN IF except_Exception("Error")
                   THEN /\ clock + SleepOnError <= Horizon
                        /\ clock' = clock + SleepOnError
                        /\ pc' = "loop"
                   ELSE /\ clock' = clock
                        /\ pc' = "crashed"
              ELSE /\ clock' = clock
                   /\ pc' = IF g.rows # <<>> THEN "process" ELSE "sleep"
    /\ UNCHANGED <<slow, schedule, workouts, saves, stats>>
    /\ UNCHANGED sideVars

\* process_reminder, up to the call of send_email: the workout lookup
Process ==
    /\ pc = "process"
    /\ \E db \in {"ok", "error", "malformed"} :
        LET r == reminders[idx]
            w == get_workout_by_id(workouts, r.video_id, db)
            c == [NoCur EXCEPT !.rid = r.rid,
                               !.workout = IF w \in {"found", "none"} THEN w ELSE "raise"]
        IN IF w \notin {"found", "none"}
           THEN Raise(c, w, clock)
           ELSE IF ProceedToSend(w)
                THEN /\ pc' = "connect"
                     /\ cur' = [c EXCEPT !.sendCalls = 1]
                     /\ UNCHANGED <<results, idx, clock>>
                ELSE Return(c, "False", clock)
    /\ UNCHANGED <<slow, schedule, workouts, saves, stats, current_time, polled, lastPoll, reminders,
                   deliveredEarlier, committedEarlier>>
    /\ UNCHANGED sideVars

\* create_smtp_connection: one connection attempt (SMTP, starttls, login)
Connect ==
    /\ pc = "connect"
    /\ \E ok \in BOOLEAN : \E d \in AttemptDurations(ok), end \in AttemptEnds(ok) :
        LET attempt == cur.attempts + 1
            wake == clock + d + RetrySleep(attempt)
            c == [cur EXCEPT !.attempts = attempt,
                             !.sessions = @ + LeftOpen(end),
                             !.opened = IF ok THEN @ + 1 ELSE @,
                             !.afterOpen = IF cur.opened > 0 THEN @ + 1 ELSE @,
                             !.lastEnd = clock + d,
                             !.gaps = IF attempt > 1 THEN @ \cup {clock - cur.lastEnd} ELSE @,
                             !.tail = IF ~ok /\ ~MoreAttempts(attempt)
                                      THEN wake - (clock + d) ELSE @]
        IN /\ wake <= Horizon
           /\ IF ok
              THEN /\ pc' = "transmit"
                   /\ cur' = c
                   /\ clock' = clock + d
                   /\ UNCHANGED <<results, idx>>
              ELSE IF MoreAttempts(attempt)
                   THEN /\ pc' = "connect"
                        /\ cur' = c
                        /\ clock' = wake
                        /\ UNCHANGED <<results, idx>>
                   ELSE \* returns None; "with None as server" raises
                        SendFailed(c, "TypeError", wake)
    /\ UNCHANGED <<slow, schedule, workouts, saves, stats, current_time, polled, lastPoll, reminders,
                   deliveredEarlier, committedEarlier>>
    /\ UNCHANGED sideVars

\* send_email: server.send_message(msg) on the open session; leaving the
\* "with" block closes that session, whether the message went out or not
Transmit ==
    /\ pc = "transmit"
    /\ \E ok \in BOOLEAN :
        LET c == [cur EXCEPT !.transmits = @ + 1, !.sessions = @ - 1]
        IN IF ok
           THEN AfterSendEmail(c, TRUE, clock)
           ELSE IF RetryAfterRejected
                THEN /\ pc' = "connect"
                     /\ cur' = c
                     /\ UNCHANGED <<results, idx, clock>>
                ELSE SendFailed(c, "SMTPException", clock)
    /\ UNCHANGED <<slow, schedule, workouts, saves, stats, current_time, polled, lastPoll, reminders,
                   deliveredEarlier, committedEarlier>>
    /\ UNCHANGED sideVars

\* mark_reminder_sent
\*   db = "conn_fail": get_connection raises; the handler returns False and
\*                     the finally clause reads the unbound conn: NameError
\*   db = "exec_fail": execute or commit raises; the handler returns False
Mark ==
    /\ pc = "mark"
    /\ \E db \in {"ok", "conn_fail", "exec_fail"} :
        LET r == reminders[idx]
            c == [cur EXCEPT !.markCalls = @ + 1]
        IN IF db = "ok"
           THEN /\ schedule' = MarkUpdate(schedule, r.email, r.video_id)
                /\ Return([c EXCEPT !.mark = "True",
                                    !.hit = /\ schedule[r.rid].email = r.email
                                            /\ schedule[r.rid].video_id = r.video_id],
                          "True", clock)
           ELSE /\ schedule' = schedule
                /\ IF ~except_Exception("Error")
                   THEN Raise([c EXCEPT !.mark = "raise"], "Error", clock)
                   ELSE IF db = "conn_fail"
                        THEN Raise([c EXCEPT !.mark = "raise"], "NameError", clock)
                        ELSE Return([c EXCEPT !.mark = "False"], "False", clock)
    /\ UNCHANGED <<slow, workouts, saves, stats, current_time, polled, lastPoll, reminders,
                   deliveredEarlier, committedEarlier>>
    /\ UNCHANGED sideVars

\* end of a cycle: sleep until the next minute
Sleep ==
    /\ pc = "sleep"
    /\ clock + SleepSeconds(clock) <= Horizon
    /\ clock' = clock + SleepSeconds(clock)
    /\ pc' = "loop"
    /\ results' = <<>>
    /\ reminders' = <<>>
    /\ idx' = 1
    /\ deliveredEarlier' = deliveredEarlier \cup Delivered(results)
    /\ committedEarlier' = committedEarlier \cup Committed(results)
    /\ polled' = "-"
    /\ UNCHANGED <<slow, schedule, workouts, saves, stats, current_time, cur, lastPoll>>
    /\ UNCHANGED sideVars

\* the operator stops the scheduler: KeyboardInterrupt, caught in __main__
Stop ==
    /\ pc \notin {"stopped", "crashed"}
    /\ pc' = "stopped"
    /\ UNCHANGED <<slow, schedule, workouts, clock, saves, stats, current_time, polled, lastPoll, reminders,
                   idx, cur, results, deliveredEarlier, committedEarlier>>
    /\ UNCHANGED sideVars

\* ------------------------------------------- a second scheduler process
\* the second process: where its check_and_send_reminders stands, the minute
\* of its latest poll, the rows that poll fetched, the entry it is at, and
\* the rows whose email it has sent in its running cycle
NoPeer == [pc |-> "off", lastPoll |-> -1, reminders |-> <<>>, idx |-> 1, sent |-> {}]

\* the second process has started and is at the top of its loop
PeerStarted == [NoPeer EXCEPT !.pc = "loop"]

\* the second process is done with the entry it is at
PeerNextEntry(p) ==
    [p EXCEPT !.idx = @ + 1,
              !.pc = IF p.idx + 1 <= Len(p.reminders) THEN "process" ELSE "sleep"]

\* check_and_send_reminders of the second process: get_current_time and the
\* poll, in a minute it has not polled yet
PeerPoll ==
    /\ peer.pc = "loop"
    /\ clock < Horizon
    /\ clock \div 60 > peer.lastPoll
    /\ \E db \in {"ok", "fail"} :
        LET g == get_due_reminders(schedule, get_current_time(clock), db)
        IN peer' = [peer EXCEPT !.lastPoll = clock \div 60,
                                !.reminders = g.rows,
                                !.idx = 1,
                                !.sent = {},
                                !.pc = IF g.rows # <<>> THEN "process" ELSE "sleep"]
    /\ UNCHANGED <<schedule, workouts, clock, slow, saves, stats, env, conversion,
                   inflight, flaky>>
    /\ UNCHANGED schedVars

\* process_reminder of the second process up to the return of send_email:
\* the workout lookup and the send, its connection attempts taken together
PeerSend ==
    /\ peer.pc = "process"
    /\ \E db \in {"ok", "error", "malformed"}, sent \in BOOLEAN :
        LET r == peer.reminders[peer.idx]
            w == get_workout_by_id(workouts, r.video_id, db)
        IN IF ~ProceedToSend(w)
           THEN peer' = PeerNextEntry(peer)
           ELSE IF MarkAfterSend(sent)
                THEN peer' = [peer EXCEPT !.pc = "mark", !.sent = @ \cup {r.rid}]
                ELSE peer' = PeerNextEntry(peer)
    /\ UNCHANGED <<schedule, workouts, clock, slow, saves, stats, env, conversion,
                   inflight, flaky>>
    /\ UNCHANGED schedVars

\* mark_reminder_sent of the second process
PeerMark ==
    /\ peer.pc = "mark"
    /\ \E db \in {"ok", "fail"} :
        LET r == peer.reminders[peer.idx]
        IN schedule' = IF db = "ok" THEN MarkUpdate(schedule, r.email, r.video_id)
                       ELSE schedule
    /\ peer' = PeerNextEntry(peer)
    /\ UNCHANGED <<workouts, clock, slow, saves, stats, env, conversion, inflight, flaky>>
    /\ UNCHANGED schedVars

\* end of a cycle of the second process: it sleeps into the next minute
PeerSleep ==
    /\ peer.pc = "sleep"
    /\ clock \div 60 > peer.lastPoll
    /\ peer' = [peer EXCEPT !.pc = "loop"]
    /\ UNCHANGED <<schedule, workouts, clock, slow, saves, stats, env, conversion,
                   inflight, flaky>>
    /\ UNCHANGED schedVars

\* ------------------------------------------------------------ the web app
\* email_reminder_section: the form saves a reminder for an existing workout
SaveSchedule ==
    /\ saves < MaxSaves       \* saves counts the calls that wrote
    /\ SecondOf(clock) = 0    \* the form is submitted at a full minute
    /\ \E email \in Emails, v \in workouts, t \in FormTimes,
          db \in {"ok", "lookup_fail", "fail"} :
        LET new == save_schedule(schedule, email, [video_id |-> v, time |-> t],
                                 NowMs(clock), db)
        IN /\ Len(new) <= MaxRows
           /\ schedule' = new
           /\ saves' = IF db = "fail" THEN saves ELSE saves + 1
    /\ UNCHANGED <<slow, workouts, clock, stats>>
    /\ UNCHANGED schedVars
    /\ UNCHANGED sideVars

\* save_schedule of one of several sessions of the web app, first half:
\* get_connection, current_time, existing = get_schedule_by_email(email)
SaveLookup ==
    /\ saves < MaxCalls
    /\ \E email \in Emails, v \in workouts, t \in FormTimes, db \in {"ok", "lookup_fail"} :
        inflight' = inflight \cup
            {[id |-> saves + 1, email |-> email, video_id |-> v, time |-> t,
              now |-> NowMs(clock),
              existing |-> get_schedule_by_email(schedule, email,
                               IF db = "lookup_fail" THEN "error" ELSE "ok")]}
    /\ saves' = saves + 1
    /\ UNCHANGED <<schedule, workouts, clock, slow, stats, env, conversion, flaky, peer>>
    /\ UNCHANGED schedVars

\* save_schedule, second half: the UPDATE or the INSERT (autocommit), or
\* the Error of execute, after which nothing is written
SaveWrite ==
    /\ \E c \in inflight, db \in {"ok", "fail"} :
        LET new == IF db = "fail" THEN schedule
                   ELSE save_schedule_write(schedule, c.email,
                            [video_id |-> c.video_id, time |-> c.time], c.now, c.existing)
        IN /\ Len(new) <= MaxRows
           /\ schedule' = new
           /\ inflight' = inflight \ {c}
    /\ UNCHANGED <<workouts, clock, slow, saves, stats, env, conversion, flaky, peer>>
    /\ UNCHANGED schedVars

\* email_reminder_section: the two number inputs, the f-string that makes
\* schedule_time of them, the workout chosen among the stored ones, and the
\* save_schedule call of the button
email_reminder_section ==
    /\ saves < MaxCalls      \* here saves counts the submissions
    /\ \E email \in Emails, hour \in FormHours, minute \in FormMinutes,
          video_id \in workouts, db \in {"ok", "lookup_fail", "fail"} :
        LET schedule_time == FormatHM(hour, minute)
            new == save_schedule(schedule, email,
                                 [video_id |-> video_id, time |-> schedule_time],
                                 NowMs(clock), db)
        IN /\ Len(new) <= MaxRows
           /\ schedule' = new
    /\ saves' = saves + 1
    /\ UNCHANGED <<slow, workouts, clock, stats>>
    /\ UNCHANGED schedVars
    /\ UNCHANGED sideVars

\* all_workouts_section: delete_workout
DeleteWorkout ==
    /\ \E v \in workouts : workouts' = workouts \ {v}
    /\ UNCHANGED <<slow, schedule, clock, saves, stats>>
    /\ UNCHANGED schedVars
    /\ UNCHANGED sideVars

\* rows written before the scheduler started: saved by the form, some of
\* them already marked by an earlier run of the scheduler
InitRows ==
    {Row(e, v, t, sent, 0) : e \in {"a@x.com"}, v \in Videos, t \in FormTimes,
                             sent \in BOOLEAN}

InitTables ==
    UNION {[1 .. n -> InitRows] : n \in 0 .. MaxInitRows}

\* no two rows of one email: what sequential, unfailing saves leave behind
UniqueEmails(sched) ==
    \A i, j \in DOMAIN sched : sched[i].email = sched[j].email => i = j

\* one run of the migration utility
Migrate ==
    /\ Len(stats) < MaxMigrations
    /\ \E db \in {"ok", "conn_fail"},
          failing \in SUBSET (DOMAIN get_all_schedules(schedule)) :
        LET m == migrate_schedules(schedule, db, failing)
        IN /\ schedule' = m.sched
           /\ stats' = Append(stats, m.stats)
    /\ UNCHANGED <<slow, workouts, clock, saves>>
    /\ UNCHANGED schedVars
    /\ UNCHANGED sideVars

\* a call of convert_time_format
Convert ==
    /\ ~conversion.called
    /\ conversion' =
          [conversion EXCEPT !.result = convert_time_format(conversion.time_str),
                             !.raised = convert_raises(conversion.time_str),
                             !.called = TRUE]
    /\ UNCHANGED <<schedule, workouts, clock, slow, saves, stats, env, inflight, flaky, peer>>
    /\ UNCHANGED schedVars

\* no convert_time_format call made
NoConversion == [time_str |-> <<>>, result |-> <<>>, raised |-> FALSE, called |-> FALSE]

\* the scheduler has polled nothing yet
SchedulerFresh ==
    /\ current_time = <<>>
    /\ polled = "-"
    /\ lastPoll = -1
    /\ reminders = <<>>
    /\ idx = 1
    /\ cur = NoCur
    /\ results = <<>>
    /\ deliveredEarlier = {}
    /\ committedEarlier = {}

\* nothing else is going on
SideIdle ==
    /\ saves = 0
    /\ stats = <<>>
    /\ conversion = NoConversion
    /\ inflight = {}
    /\ flaky = FALSE
    /\ peer = NoPeer

\* the scheduler has been constructed and enters its loop
Init ==
    /\ schedule \in {t \in InitTables : UniqueEmails(t)}
    /\ workouts = Videos
    /\ clock = 0
    /\ slow = FALSE
    /\ pc = "loop"
    /\ env = FullEnv
    /\ SchedulerFresh
    /\ SideIdle

Next ==
    \/ Poll
    \/ Process
    \/ Connect
    \/ Transmit
    \/ Mark
    \/ Sleep
    \/ SaveSchedule
    \/ DeleteWorkout
    \/ Migrate

Spec == Init /\ [][Next]_vars

\* the same, with the operator able to stop the scheduler
NextStop ==
    \/ Next
    \/ Stop

SpecStop == Init /\ [][NextStop]_vars

\* the scheduler process from its start, in any environment
InitStartup ==
    /\ schedule \in {t \in InitTables : UniqueEmails(t)}
    /\ workouts = Videos
    /\ clock = 0
    /\ slow = FALSE
    /\ pc = "start"
    /\ env \in Envs
    /\ SchedulerFresh
    /\ SideIdle

NextStartup ==
    \/ Construct
    \/ Poll
    \/ Process
    \/ Connect
    \/ Transmit
    \/ Mark
    \/ Sleep

SpecStartup == InitStartup /\ [][NextStartup]_vars

\* the scheduler alone, with an SMTP server that may let attempts time out
InitSlow ==
    /\ schedule \in {t \in InitTables : UniqueEmails(t)}
    /\ workouts = Videos
    /\ clock = 0
    /\ slow = TRUE
    /\ pc = "loop"
    /\ env = FullEnv
    /\ SchedulerFresh
    /\ SideIdle

NextSlow ==
    \/ Poll
    \/ Process
    \/ Connect
    \/ Transmit
    \/ Mark
    \/ Sleep

SpecSlow == InitSlow /\ [][NextSlow]_vars

\* the scheduler alone, with an SMTP server that may accept the connection
\* and then fail STARTTLS or reject the login
InitSessions ==
    /\ schedule \in {t \in InitTables : UniqueEmails(t)}
    /\ workouts = Videos
    /\ clock = 0
    /\ slow = FALSE
    /\ pc = "loop"
    /\ env = FullEnv
    /\ SchedulerFresh
    /\ saves = 0
    /\ stats = <<>>
    /\ conversion = NoConversion
    /\ inflight = {}
    /\ flaky = TRUE
    /\ peer = NoPeer

NextSessions ==
    \/ Poll
    \/ Process
    \/ Connect
    \/ Transmit
    \/ Mark
    \/ Sleep

SpecSessions == InitSessions /\ [][NextSessions]_vars

\* two scheduler processes started on the same store
InitTwo ==
    /\ schedule \in {t \in InitTables : UniqueEmails(t)}
    /\ workouts = Videos
    /\ clock = 0
    /\ slow = FALSE
    /\ pc = "loop"
    /\ env = FullEnv
    /\ SchedulerFresh
    /\ saves = 0
    /\ stats = <<>>
    /\ conversion = NoConversion
    /\ inflight = {}
    /\ flaky = FALSE
    /\ peer = PeerStarted

NextTwo ==
    \/ Poll
    \/ Process
    \/ Connect
    \/ Transmit
    \/ Mark
    \/ Sleep
    \/ PeerPoll
    \/ PeerSend
    \/ PeerMark
    \/ PeerSleep

SpecTwo == InitTwo /\ [][NextTwo]_vars

\* the reminder form used from several sessions, the scheduler not started
InitSaves ==
    /\ schedule \in {t \in InitTables : UniqueEmails(t)}
    /\ workouts = Videos
    /\ clock = 0
    /\ slow = FALSE
    /\ pc = "start"
    /\ env = FullEnv
    /\ SchedulerFresh
    /\ SideIdle

NextSaves ==
    \/ SaveLookup
    \/ SaveWrite

SpecSaves == InitSaves /\ [][NextSaves]_vars

\* the reminder form and the migration utility on a store that starts empty
InitForm ==
    /\ schedule = <<>>
    /\ workouts = Videos
    /\ clock = 0
    /\ slow = FALSE
    /\ pc = "start"
    /\ env = FullEnv
    /\ SchedulerFresh
    /\ SideIdle

NextForm ==
    \/ email_reminder_section
    \/ Migrate

SpecForm == InitForm /\ [][NextForm]_vars

\* times as rows written before the 24-hour form hold them: canonical,
\* 12-hour with meridiem, and malformed
LegacyTimes ==
    {FormatHM(0, 0),
     <<"9", ":", "0", "5", " ", "A", "M">>,
     <<"1", "2", ":", "3", "0", " ", "P", "M">>,
     <<"2", "5", ":", "0", "0">>,
     <<"9", ":", "5">>}

LegacyRows ==
    {Row(e, v, t, sent, 0) : e \in Emails, v \in Videos, t \in LegacyTimes,
                             sent \in BOOLEAN}

LegacyTables ==
    UNION {[1 .. n -> LegacyRows] : n \in 0 .. MaxRows}

\* the migration utility run on a store of old rows, the scheduler not started
InitMigrate ==
    /\ schedule \in {t \in LegacyTables : UniqueEmails(t)}
    /\ workouts = Videos
    /\ clock = 0
    /\ slow = FALSE
    /\ pc = "start"
    /\ env = FullEnv
    /\ SchedulerFresh
    /\ SideIdle

NextMigrate == Migrate

SpecMigrate == InitMigrate /\ [][NextMigrate]_vars

\* convert_time_format called with any of the strings
InitConvert ==
    /\ schedule = <<>>
    /\ workouts = Videos
    /\ clock = 0
    /\ slow = FALSE
    /\ pc = "start"
    /\ env = FullEnv
    /\ SchedulerFresh
    /\ saves = 0
    /\ stats = <<>>
    /\ inflight = {}
    /\ flaky = FALSE
    /\ peer = NoPeer
    /\ conversion \in {[NoConversion EXCEPT !.time_str = t] : t \in TimeStrings}

NextConvert == Convert

SpecConvert == InitConvert /\ [][NextConvert]_vars

\* ------------------------------------------------------------- properties
InCall == pc \in {"process", "connect", "transmit", "mark"}

\* a step of the running process_reminder call
CallStep == InCall /\ (cur' # cur \/ results' # results)

\* the call a step has just advanced: finished (the newest result) or running
EntryAfter ==
    IF Len(results') > Len(results) THEN results'[Len(results')] ELSE cur'

\* the calls of the running cycle, finished and running
Entries == {results[i] : i \in DOMAIN results} \cup {cur}

\* C3: when send_email returns failure, mark_reminder_sent is not called,
\* process_reminder returns False, and no step of the call changes the
\* schedule table (is_sent and updated_at of the entry stay as they were).
C3_FailedSendLeavesEntry ==
    [][CallStep =>
          /\ (EntryAfter.send = "False" =>
                 /\ EntryAfter.markCalls = 0
                 /\ EntryAfter.mark = "-"
                 /\ EntryAfter.ret = "False"
                 /\ pc' # "mark")
          /\ (EntryAfter.markCalls = 0 => schedule' = schedule)]_vars

\* a call whose send_email failed has returned; its row is still unsent
C3_Witness ==
    \E i \in DOMAIN results :
        /\ results[i].send = "False"
        /\ results[i].ret = "False"
        /\ results[i].rid \in DOMAIN schedule
        /\ schedule[results[i].rid].is_sent = FALSE

\* C4: when get_workout_by_id returns no workout, process_reminder makes no
\* send_email call and no mark_reminder_sent call, returns False and leaves
\* the schedule table as it was.
C4_MissingWorkoutSkipsSend ==
    [][CallStep =>
          (EntryAfter.workout = "none" =>
              /\ EntryAfter.sendCalls = 0
              /\ EntryAfter.attempts = 0
              /\ EntryAfter.transmits = 0
              /\ EntryAfter.markCalls = 0
              /\ EntryAfter.ret = "False"
              /\ schedule' = schedule)]_vars

\* a polled entry whose workout has been deleted was processed and is unsent
C4_Witness ==
    \E i \in DOMAIN results :
        /\ results[i].workout = "none"
        /\ results[i].ret = "False"
        /\ reminders[i].video_id \notin workouts
        /\ schedule[results[i].rid].is_sent = FALSE

\* C7: a send_email call makes at most max_retries connection attempts and
\* none after one succeeded; consecutive attempts are retry_delay seconds
\* apart and nothing is slept after the last one; when every attempt failed
\* the call returns failure and no message was transmitted.
C7_ConnectionRetries ==
    \A e \in Entries :
        /\ e.attempts <= max_retries
        /\ e.opened <= 1
        /\ e.afterOpen = 0
        /\ e.gaps \subseteq {retry_delay}
        /\ e.tail = 0
        /\ (e.transmits > 0 => e.opened = 1)
        /\ (e.send # "-" /\ e.opened = 0 =>
               /\ e.attempts = max_retries
               /\ e.send = "False"
               /\ e.transmits = 0)

\* a send_email call has failed after max_retries attempts, retry_delay apart
C7_Witness ==
    \E i \in DOMAIN results :
        /\ results[i].attempts = max_retries
        /\ results[i].opened = 0
        /\ results[i].gaps = {retry_delay}
        /\ results[i].send = "False"

\* C8: send_message is called at most once per send_email call; when the
\* server rejects the message the call returns failure at once, with no
\* further connection attempt and no mark.
C8_RejectedIsFinal ==
    /\ \A e \in Entries :
          /\ e.transmits <= 1
          /\ (e.transmits = 1 => e.afterOpen = 0 /\ e.send # "-")
          /\ (e.transmits = 1 /\ e.send = "False" =>
                 e.markCalls = 0 /\ e.ret = "False")
    /\ (cur.transmits = 1 => pc = "mark" /\ cur.send = "True")

\* a send_email call whose message the server rejected has returned failure
C8_Witness ==
    \E i \in DOMAIN results :
        /\ results[i].transmits = 1
        /\ results[i].opened = 1
        /\ results[i].send = "False"
        /\ results[i].ret = "False"

\* C9: within a cycle every polled entry is processed, whatever happened to
\* the entries before it: when the cycle is past its entries there is one
\* finished process_reminder call per polled entry, in order, each of which
\* made its workout lookup and returned True or False.
C9_EveryPolledEntryProcessed ==
    /\ InCall => /\ idx \in DOMAIN reminders
                 /\ Len(results) = idx - 1
    /\ ~InCall => Len(results) = Len(reminders)
    /\ \A i \in DOMAIN results :
          /\ results[i].rid = reminders[i].rid
          /\ results[i].workout # "-"
          /\ results[i].ret \in {"True", "False"}

\* the first entry's call died of an exception and the second was still sent
C9_Witness ==
    /\ pc = "sleep"
    /\ Len(results) = 2
    /\ results[1].ret = "False"
    /\ results[1].mark = "raise"
    /\ results[2].send = "True"
    /\ results[2].ret = "True"

\* a failure inside the cycle: poll, lookup, connection, transmission or mark
FailureStep ==
    \/ (pc = "loop" /\ polled' = "fail")
    \/ (CallStep /\ EntryAfter.ret = "False")

\* C10: no failure ends check_and_send_reminders: a failing step leaves the
\* loop inside its cycle or at its sleep, the sleep is followed by the next
\* cycle, and only the operator's stop ends the loop.
C10_LoopSurvivesFailures ==
    [][/\ pc' # "crashed"
       /\ (pc' = "stopped" /\ pc # "stopped" => Stop)
       /\ (FailureStep => pc' \in {"process", "sleep"})
       /\ (pc = "sleep" /\ pc' \notin {"sleep", "stopped"} =>
              pc' = "loop" /\ clock' > clock)
       /\ (pc = "loop" /\ pc' \notin {"loop", "stopped"} =>
              pc' \in {"process", "sleep"})]_vars

\* in a cycle after the first, a call has died of an exception and the loop
\* has reached its sleep all the same
C10_Witness ==
    /\ pc = "sleep"
    /\ clock >= SleepBase
    /\ \E i \in DOMAIN results :
          results[i].workout = "raise" /\ results[i].ret = "False"

\* C1: a successful send for an entry goes with exactly one send_email call
\* and one mark_reminder_sent call, and no cycle after the one that sent an
\* entry's email makes a send_email call for that entry (the entry being
\* left as it was: no save_schedule call has written since the start).
C1_SentOnceNeverAgain ==
    \A e \in Entries :
        /\ (e.send = "True" /\ e.ret # "-" =>
               e.sendCalls = 1 /\ e.markCalls = 1)
        /\ (e.rid \in deliveredEarlier /\ saves = 0 => e.sendCalls = 0)

\* the step that transmits the message of the running call
Dispatched == pc = "transmit" /\ EntryAfter.send = "True"

\* C2: an entry whose is_sent is true is never returned by a poll and no
\* email is dispatched for it, whatever cycles, saves and migration runs
\* came before.
C2_SentNeverPolledNorDispatched ==
    [][/\ (pc = "loop" /\ polled' # "-" =>
              \A i \in DOMAIN reminders' :
                  schedule[reminders'[i].rid].is_sent = FALSE)
       /\ (Dispatched => schedule[cur.rid].is_sent = FALSE)]_vars

\* the cycle is over and the email of every polled entry was sent
AllDispatched ==
    /\ pc = "sleep"
    /\ reminders # <<>>
    /\ \A i \in DOMAIN results : results[i].send = "True"

\* C5: with the store available a poll at T returns exactly the entries with
\* time = T and is_sent false; once every returned entry has been dispatched
\* successfully, a poll with the same T returns none of them.
C5_PollExactThenEmpty ==
    [][/\ (pc = "loop" /\ polled' = "ok" =>
              /\ reminders' = SelectDue(schedule, get_current_time(clock), 1)
              /\ \A i \in DOMAIN schedule :
                    (schedule[i].time = get_current_time(clock)
                         /\ ~schedule[i].is_sent)
                    <=> \E j \in DOMAIN reminders' : reminders'[j].rid = i)
       /\ (AllDispatched' =>
              \A j \in DOMAIN SelectDue(schedule', current_time', 1) :
                  \A i \in DOMAIN reminders' :
                      SelectDue(schedule', current_time', 1)[j].rid
                          # reminders'[i].rid)]_vars

\* C6: the commit that follows a successful send sets the entry's is_sent
\* and raises its updated_at, to no less than the time of the commit.
C6_CommitBumpsUpdatedAt ==
    [][(pc = "mark" /\ CallStep /\ EntryAfter.mark = "True" /\ EntryAfter.hit) =>
          /\ schedule'[EntryAfter.rid].is_sent = TRUE
          /\ schedule'[EntryAfter.rid].updated_at > schedule[EntryAfter.rid].updated_at
          /\ schedule'[EntryAfter.rid].updated_at >= NowMs(clock)]_vars

\* the loop was never entered: no poll, no process_reminder call
NeverEntered ==
    /\ pc \in {"start", "failed"}
    /\ lastPoll = -1
    /\ polled = "-"
    /\ cur = NoCur
    /\ results = <<>>

\* C11 as stated: if any of server, port, user or password is missing from
\* the environment, construction fails and the loop is never entered.
C11_AnyMissingNoLoop ==
    (\/ env.server = None
     \/ env.port = None
     \/ env.user = None
     \/ env.password = None) => NeverEntered

\* C11, amended: if the user or the password is missing or empty, or the
\* server is set to the empty string, or the port to an empty or zero value,
\* construction fails and the loop is never entered; a server or port that
\* is merely not set falls back to its default and construction succeeds.
C11_MissingCredentialsNoLoop ==
    IF \/ env.user \in {None, ""}
       \/ env.password \in {None, ""}
       \/ env.server = ""
       \/ env.port \in {"", "0"}
    THEN NeverEntered
    ELSE pc # "failed"

\* construction has failed for an environment without SMTP_USER
C11_Witness ==
    /\ pc = "failed"
    /\ env.user = None
    /\ env.server # None
    /\ env.port # None
    /\ env.password = "secret"

\* "H:MM AM" / "H:MM PM": the hour padded or not, one space, the meridiem
Compose12(h, m, padded, pm) ==
    (IF padded THEN Pad2(h) ELSE Dec(h)) \o <<":">> \o Pad2(m)
        \o <<" ", IF pm THEN "P" ELSE "A", "M">>

\* the hour of the day of hour h of the 12-hour clock
Hour24(h, pm) == IF pm THEN (IF h = 12 THEN 12 ELSE h + 12) ELSE (IF h = 12 THEN 0 ELSE h)

\* ^([01]\d|2[0-3]):[0-5]\d$
IsCanonical(s) ==
    /\ Len(s) = 5
    /\ IF s[1] \in {"0", "1"} THEN IsDigit(s[2])
       ELSE s[1] = "2" /\ s[2] \in {"0", "1", "2", "3"}
    /\ s[3] = ":"
    /\ s[4] \in {"0", "1", "2", "3", "4", "5"}
    /\ IsDigit(s[5])

\* C12: for "H:MM AM" and "H:MM PM" with H in 1..12, padded or not, and MM
\* in 00..59, convert_time_format returns the zero-padded 24-hour time of
\* the same instant (12 AM is hour 00, 12 PM hour 12, other PM hours H+12);
\* a canonical HH:MM input is returned unchanged.
C12_ConvertsTwelveHour ==
    conversion.called =>
        /\ \A h \in 1 .. 12, m \in 0 .. 59, padded \in BOOLEAN, pm \in BOOLEAN :
              conversion.time_str = Compose12(h, m, padded, pm) =>
                  /\ conversion.result = FormatHM(Hour24(h, pm), m)
                  /\ ~conversion.raised
        /\ (IsCanonical(conversion.time_str) =>
               conversion.result = conversion.time_str /\ ~conversion.raised)

\* "12:00 AM" has been converted to "00:00"
C12_Witness ==
    /\ conversion.called
    /\ conversion.time_str = Compose12(12, 0, TRUE, FALSE)
    /\ conversion.result = FormatHM(0, 0)

\* C13: for an input that is neither canonical HH:MM nor a parseable
\* 12-hour time with meridiem, convert_time_format reports a failure
\* instead of returning a value.
C13_InvalidInputFails ==
    (/\ conversion.called
     /\ ~IsCanonical(conversion.time_str)
     /\ ~strptime_IMp(conversion.time_str).ok) => conversion.raised

\* C14: every value convert_time_format returns is canonical HH:MM.
C14_ResultIsCanonical ==
    (conversion.called /\ ~conversion.raised) => IsCanonical(conversion.result)

\* a run of migrate_schedules has just returned
MigrationRun == Len(stats') = Len(stats) + 1

\* the entries whose time is neither canonical nor a parseable 12-hour time
Unparseable(sched) ==
    {i \in DOMAIN sched :
        ~IsCanonical(sched[i].time) /\ ~strptime_IMp(sched[i].time).ok}

\* C15: the second of two migrate_schedules runs in a row returns
\* converted = 0 and counts every stored entry as unchanged.
C15_SecondRunAllUnchanged ==
    Len(stats) >= 2 =>
        /\ stats[2].converted = 0
        /\ stats[2].unchanged = Len(schedule)

\* C16: migrate_schedules reads every entry: the total it returns is the
\* number of stored entries, and after the run every entry whose time was a
\* parseable 12-hour string holds the corresponding 24-hour time.
C16_ReadsAndConvertsAll ==
    [][MigrationRun =>
          /\ stats'[Len(stats')].total = Len(schedule)
          /\ Len(schedule') = Len(schedule)
          /\ \A i \in DOMAIN schedule :
                strptime_IMp(schedule[i].time).ok =>
                    schedule'[i].time =
                        FormatHM(strptime_IMp(schedule[i].time).hour,
                                 strptime_IMp(schedule[i].time).minute)]_vars

\* C17: an entry whose time cannot be normalized is counted in failed or
\* invalid, not in converted or unchanged, and its row is left as it was.
C17_UnparseableCountedFailed ==
    [][MigrationRun =>
          LET st == stats'[Len(stats')]
              bad == Unparseable(schedule)
          IN /\ st.failed + st.invalid >= Cardinality(bad)
             /\ st.converted + st.unchanged <= Len(schedule) - Cardinality(bad)
             /\ \A i \in bad : schedule'[i] = schedule[i]]_vars

\* C18: save_schedule inserts a row when the email has none and otherwise
\* updates the existing row in place, and after any sequence of calls, also
\* overlapping ones, the store holds at most one row per email.
C18_UpsertOneRowPerEmail ==
    [][(inflight' # inflight /\ inflight' \subseteq inflight /\ schedule' # schedule) =>
          LET c == CHOOSE x \in inflight : x \notin inflight'
              r == Row(c.email, c.video_id, c.time, FALSE, c.now)
          IN /\ IF \E i \in DOMAIN schedule : schedule[i].email = c.email
                THEN /\ Len(schedule') = Len(schedule)
                     /\ \A i \in DOMAIN schedule :
                           IF schedule[i].email = c.email
                           THEN schedule'[i] =
                                    [r EXCEPT !.is_sent = schedule[i].is_sent]
                           ELSE schedule'[i] = schedule[i]
                ELSE schedule' = Append(schedule, r)
             /\ UniqueEmails(schedule')]_vars

\* the poll at the top of a cycle
PollStep == pc = "loop" /\ polled' # "-"

\* C19: the loop polls every minute it runs through: each poll is made in
\* the minute that follows the minute of the poll before it, whatever the
\* time the cycle in between took.
C19_PollsEveryMinute ==
    [][PollStep => lastPoll' = lastPoll + 1]_vars

\* C20: the loop never polls a minute twice: the sleep of a cycle ends in a
\* later minute than the one polled and every poll is made in a later minute
\* than the poll before it; an entry is sent only in a cycle polled at the
\* entry's time of day, so after a failed dispatch at T not before T of the
\* following day.
C20_NeverSameMinuteTwice ==
    [][/\ (pc = "sleep" /\ pc' = "loop" => clock' \div 60 > lastPoll)
       /\ (PollStep => lastPoll' > lastPoll)
       /\ (CallStep /\ EntryAfter.sendCalls = 1 =>
              reminders[idx].time = get_current_time(lastPoll * 60))]_vars

\* on the second day an entry is dispatched at its time of day again, its
\* email never having been sent before
C20_Witness ==
    /\ lastPoll >= NumMinutes
    /\ cur.sendCalls = 1
    /\ cur.rid \notin deliveredEarlier
    /\ schedule[cur.rid].time = get_current_time(lastPoll * 60)

\* the step on which the running process_reminder call returns
ReturnStep == InCall /\ Len(results') > Len(results)

\* C27: whenever send_email succeeded for an entry, the entry's is_sent is
\* true when process_reminder returns, also when the store fails while the
\* entry is being marked.
C27_SentImpliesMarked ==
    [][(ReturnStep /\ EntryAfter.send = "True") =>
          schedule'[EntryAfter.rid].is_sent = TRUE]_vars

\* C28: when process_reminder returns True for a polled entry, the row of
\* that entry (it still holds the entry's email) has is_sent = TRUE at that
\* moment, also when save_schedule has changed the row's video_id or time
\* between the poll and the mark.
C28_TrueImpliesMarked ==
    [][(ReturnStep /\ EntryAfter.ret = "True") =>
          /\ schedule'[EntryAfter.rid].email = reminders[idx].email
          /\ schedule'[EntryAfter.rid].is_sent = TRUE]_vars

\* a mark_reminder_sent call whose UPDATE ran
MarkStep == pc = "mark" /\ ReturnStep /\ EntryAfter.mark = "True"

\* C29: marking one entry changes is_sent of that entry only: every other
\* row keeps its is_sent.
C29_MarkTouchesOneRow ==
    [][MarkStep =>
          \A i \in DOMAIN schedule :
              i # cur.rid => schedule'[i].is_sent = schedule[i].is_sent]_vars

\* C22: when the operator stops the scheduler no dispatch is left half done:
\* the interrupted call is not one whose email has been sent and whose
\* mark_reminder_sent has not run.
C22_StopLeavesNoPartialDispatch ==
    pc = "stopped" => ~(cur.send = "True" /\ cur.mark = "-")

\* C30: the counts migrate_schedules returns are consistent: total is the
\* sum of converted, unchanged, failed and invalid, and every stored entry
\* is counted in exactly one of the four, also when the connection or a
\* write fails.
C30_CountsAddUp ==
    [][MigrationRun =>
          LET st == stats'[Len(stats')]
          IN /\ st.total = st.converted + st.unchanged + st.failed + st.invalid
             /\ st.converted + st.unchanged + st.failed + st.invalid
                    = Len(schedule)]_vars

\* a step of the scheduler loop, as opposed to one of the form or the migration
SchedulerStep == schedVars' # schedVars

\* C24: a step of the scheduler loop changes nothing of a schedule row but
\* is_sent (and updated_at): no row is added or removed and email, video_id
\* and time stay; save_schedule and migrate_schedules never change the
\* is_sent of a row; and is_sent never goes from true to false.
C24_FieldsWrittenByTheirOwners ==
    [][/\ (SchedulerStep =>
              /\ Len(schedule') = Len(schedule)
              /\ \A i \in DOMAIN schedule :
                    /\ schedule'[i].email = schedule[i].email
                    /\ schedule'[i].video_id = schedule[i].video_id
                    /\ schedule'[i].time = schedule[i].time)
       /\ (~SchedulerStep =>
              \A i \in DOMAIN schedule :
                  /\ i \in DOMAIN schedule'
                  /\ schedule'[i].is_sent = schedule[i].is_sent)
       /\ \A i \in DOMAIN schedule :
              schedule[i].is_sent = TRUE =>
                  i \in DOMAIN schedule' /\ schedule'[i].is_sent = TRUE]_vars

\* a row the scheduler has marked was rewritten by a later save_schedule call
\* (new workout, new updated_at) and is still marked
C24_Witness ==
    \E i \in (committedEarlier \cup Committed(results)) :
        /\ schedule[i].is_sent = TRUE
        /\ schedule[i].updated_at > 0
        /\ saves = 1
        /\ \E j \in DOMAIN results :
              results[j].rid = i /\ reminders[j].video_id # schedule[i].video_id

\* C26: after any sequence of save_schedule calls issued by the reminder
\* form and of migration runs, the time of every schedule row matches
\* ^([01]\d|2[0-3]):[0-5]\d$.
C26_StoredTimesCanonical ==
    \A i \in DOMAIN schedule : IsCanonical(schedule[i].time)

\* the form has saved 09:05 and 23:59 and the migration has run
C26_Witness ==
    /\ Len(stats) >= 1
    /\ \E i, j \in DOMAIN schedule :
          /\ schedule[i].time = <<"0", "9", ":", "0", "5">>
          /\ schedule[j].time = <<"2", "3", ":", "5", "9">>

\* C23: every session opened during a send_email call is closed by the time
\* the call has returned, on success and on every failure path: failed
\* STARTTLS, failed login, rejected message.
C23_SessionsClosedOnReturn ==
    \A e \in Entries : e.send # "-" => e.sessions = 0

\* rows whose email the first process has sent in its running cycle
SentThisCycle ==
    Delivered(results) \cup (IF cur.send = "True" THEN {cur.rid} ELSE {})

\* C21: with two scheduler processes on the same store, no entry is
\* dispatched more than once for the same due minute: a row whose email one
\* process has sent in its cycle of a minute is not sent by the other in its
\* cycle of that minute.
C21_NoDoubleDispatch ==
    lastPoll = peer.lastPoll => SentThisCycle \cap peer.sent = {}

====
